---- MODULE Spec2Model ----
(***************************************************************************)
(* The notes lesson app: src/app.js wires GET /hello and mounts the notes  *)
(* router (src/README.md:554-604) under /notes; the slots 4 and 5 of       *)
(* src/app.js are filled with the catch-all 404 middleware                 *)
(* (src/README.md:243-247) and the centralized error middleware            *)
(* (src/README.md:215-224); the optional POST /notes extension             *)
(* (src/README.md:544-551) is registered with the routes, behind           *)
(* express.json() (src/README.md:166).                                     *)
(*                                                                         *)
(* A request is dispatched through the layer stack top to bottom in one    *)
(* step; the only suspension point is the await of getNoteFromDB, whose    *)
(* timer callback is a second step.                                        *)
(***************************************************************************)
EXTENDS Integers, Sequences, FiniteSets, TLC

VARIABLES notes, up, reqs

vars == <<notes, up, reqs>>

-----------------------------------------------------------------------------
(* Bounds *)

MaxReqs == 3

-----------------------------------------------------------------------------
(* Values *)

\* a destructured property that is not there (undefined)
Undefined == "<undefined>"

\* the fake data store
Seed ==
  << [id |-> "1", title |-> "Grocery", body |-> "Buy milk"],
     [id |-> "2", title |-> "Workout", body |-> "Leg day"] >>

NoNote == [id |-> Undefined, title |-> Undefined, body |-> Undefined]

NoErr == [message |-> "", hasStatus |-> FALSE, status |-> 0, name |-> "none"]

\* new Error(message): no status property yet
NewError(message) ==
  [message |-> message, hasStatus |-> FALSE, status |-> 0, name |-> "Error"]

\* err.status = s
WithStatus(err, s) == [err EXCEPT !.hasStatus = TRUE, !.status = s]

\* evaluating the undeclared identifier AppError throws
AppErrorUndeclared ==
  [message |-> "AppError is not defined", hasStatus |-> FALSE, status |-> 0,
   name |-> "ReferenceError"]

NoRes ==
  [status |-> 0, by |-> "nobody", kind |-> "none", note |-> NoNote,
   list |-> <<>>, message |-> "", errStatus |-> 0]

\* res.status(s).json(note)
JsonNote(s, by, n) == [NoRes EXCEPT !.status = s, !.by = by, !.kind = "note", !.note = n]

\* res.json(array)
JsonList(s, by, l) == [NoRes EXCEPT !.status = s, !.by = by, !.kind = "list", !.list = l]

\* res.json({ message })
JsonMessage(s, by, m) == [NoRes EXCEPT !.status = s, !.by = by, !.kind = "message", !.message = m]

\* res.status(s).json({ error: { message, status } })
JsonError(s, by, m, es) ==
  [NoRes EXCEPT !.status = s, !.by = by, !.kind = "error", !.message = m, !.errStatus = es]

\* the framework's own page, not JSON
HtmlPage(s, m) == [NoRes EXCEPT !.status = s, !.by = "finalhandler", !.kind = "html", !.message = m]

-----------------------------------------------------------------------------
(* Conversions *)

Digits == <<"0", "1", "2", "3", "4", "5", "6", "7", "8", "9">>

\* String(n) for a non-negative integer
RECURSIVE String(_)
String(n) ==
  IF n < 10 THEN Digits[n + 1] ELSE String(n \div 10) \o Digits[(n % 10) + 1]

RECURSIVE JoinPath(_)
JoinPath(segs) ==
  IF segs = <<>> THEN "" ELSE "/" \o Head(segs) \o JoinPath(Tail(segs))

\* req.url of a request as the app-level middleware sees it: path and query
Url(req) == (IF req.path = <<>> THEN "/" ELSE JoinPath(req.path)) \o req.query

\* a value is falsy for `!value` when it is undefined or the empty string
Falsy(v) == v \in {Undefined, ""}

-----------------------------------------------------------------------------
(* Note Store *)

\* notes.find(n => n.id = id): an assignment where the comparison should be
FindAssign(store, id) ==
  IF store = <<>> THEN NoNote ELSE [Head(store) EXCEPT !.id = id]

\* notes.find(n => n.id === id): the first note with that id, else undefined
RECURSIVE Find(_, _)
Find(store, id) ==
  IF store = <<>> THEN NoNote
  ELSE IF Head(store).id = id THEN Head(store)
  ELSE Find(Tail(store), id)

-----------------------------------------------------------------------------
(* What a handler does with a request: it responds, calls next(), calls
   next(err), throws, or suspends at an await. *)

Respond(res, store) == [act |-> "respond", res |-> res, err |-> NoErr, notes |-> store]

CallNext(store) == [act |-> "next", res |-> NoRes, err |-> NoErr, notes |-> store]

CallNextErr(err, store) == [act |-> "nextErr", res |-> NoRes, err |-> err, notes |-> store]

Throw(err, store) == [act |-> "throw", res |-> NoRes, err |-> err, notes |-> store]

Suspend(store) == [act |-> "await", res |-> NoRes, err |-> NoErr, notes |-> store]

\* express.json(): req.body is the parsed object, then next()
JsonBodyParser(req, store) == CallNext(store)

\* app.get("/hello")
Hello(req, store) == Respond(JsonMessage(200, "route", "Hello"), store)

\* router.get("/")
ListNotes(req, store) == Respond(JsonList(200, "route", store), store)

\* router.get("/:id") that forgets err.status = 404
GetNoteByIdNoStatus(id, store) ==
  LET note == Find(store, id) IN
  IF note = NoNote
    THEN CallNextErr(NewError("Note not found"), store)
    ELSE Respond(JsonNote(200, "route", note), store)

\* router.get("/:id")
GetNoteById(id, store) ==
  LET note == Find(store, id) IN
  IF note = NoNote
    THEN CallNextErr(WithStatus(NewError("Note not found"), 404), store)
    ELSE Respond(JsonNote(200, "route", note), store)

\* { id: String(notes.length), title, body }
NewNoteOffByOne(store, title, body) ==
  [id |-> String(Len(store)), title |-> title, body |-> body]

\* { id: String(notes.length + 1), title, body }
NewNote(store, title, body) ==
  [id |-> String(Len(store) + 1), title |-> title, body |-> body]

\* notes.push(newNote)
Push(store, newNote) == Append(store, newNote)

\* app.post("/notes") with notes.unshift(newNote) for the push
CreateNoteUnshift(req, store) ==
  IF Falsy(req.title) \/ Falsy(req.body)
    THEN Throw(AppErrorUndeclared, store)
    ELSE LET newNote == NewNote(store, req.title, req.body) IN
         Respond(JsonNote(201, "route", newNote), <<newNote>> \o store)

\* app.post("/notes")
CreateNote(req, store) ==
  IF Falsy(req.title) \/ Falsy(req.body)
    THEN Throw(AppErrorUndeclared, store)
    ELSE LET newNote == NewNote(store, req.title, req.body) IN
         Respond(JsonNote(201, "route", newNote), Push(store, newNote))

\* router.get("/async-notes/:id"): runs up to the await of getNoteFromDB
AsyncNotes(req, store) == Suspend(store)

\* the catch-all 404 middleware
NotFound(req, store) ==
  CallNextErr(WithStatus(NewError("Route not found: " \o req.method \o " " \o Url(req)), 404),
              store)

\* err.status without the default
StatusCodeNoDefault(err) == err.status

\* err.status || 500
StatusCode(err) == IF err.hasStatus /\ err.status # 0 THEN err.status ELSE 500

\* the centralized error middleware (err, req, res, next)
ErrorMiddleware(err, req, store) ==
  Respond(JsonError(StatusCode(err), "errorMiddleware", err.message, StatusCode(err)), store)

\* the notes router, mounted under /notes: its routes in registration order
NotesRouter(req, store) ==
  LET sub == Tail(req.path) IN
  IF req.method = "GET" /\ sub = <<>> THEN ListNotes(req, store)
  ELSE IF req.method = "GET" /\ Len(sub) = 1 THEN GetNoteById(sub[1], store)
  ELSE IF req.method = "GET" /\ Len(sub) = 2 /\ sub[1] = "async-notes"
    THEN AsyncNotes(req, store)
  ELSE CallNext(store)

-----------------------------------------------------------------------------
(* The app's layer stack *)

\* the error middleware registered before the catch-all
StackReversed == <<"json", "hello", "postNotes", "notesRouter", "errorMiddleware", "notFound">>

Stack == <<"json", "hello", "postNotes", "notesRouter", "notFound", "errorMiddleware">>

\* the error middleware declared with three parameters is no error layer
IsErrorLayerNever(layer) == FALSE

\* a layer with four parameters only receives errors
IsErrorLayer(layer) == layer = "errorMiddleware"

Matches(layer, req) ==
  CASE layer = "hello" -> req.method = "GET" /\ req.path = <<"hello">>
    [] layer = "postNotes" -> req.method = "POST" /\ req.path = <<"notes">>
    [] layer = "notesRouter" -> Len(req.path) >= 1 /\ req.path[1] = "notes"
    [] OTHER -> TRUE

Handle(layer, req, store) ==
  CASE layer = "json" -> JsonBodyParser(req, store)
    [] layer = "hello" -> Hello(req, store)
    [] layer = "postNotes" -> CreateNote(req, store)
    [] layer = "notesRouter" -> NotesRouter(req, store)
    [] layer = "notFound" -> NotFound(req, store)

\* the framework's default handling when the stack is exhausted
FinalHandler(err, req) ==
  IF err = NoErr
    THEN HtmlPage(404, "Cannot " \o req.method \o " " \o Url(req))
    ELSE HtmlPage(StatusCode(err), err.message)

NoOutcome(store) ==
  [res |-> NoRes, nres |-> 0, errCalls |-> 0, nfRan |-> FALSE, err |-> NoErr,
   notes |-> store, wait |-> FALSE, fault |-> "none"]

\* the outcome of running the stack from layer i on, with err pending or not
RECURSIVE Dispatch(_, _, _, _)
Dispatch(i, err, req, o) ==
  IF i > Len(Stack)
    THEN [o EXCEPT !.res = FinalHandler(err, req), !.nres = @ + 1]
  ELSE
    LET layer == Stack[i] IN
    IF err # NoErr
      THEN IF IsErrorLayer(layer)
             THEN LET h == ErrorMiddleware(err, req, o.notes) IN
                  [o EXCEPT !.res = h.res, !.nres = @ + 1, !.errCalls = @ + 1]
             ELSE Dispatch(i + 1, err, req, o)
    ELSE IF IsErrorLayer(layer) \/ ~Matches(layer, req)
      THEN Dispatch(i + 1, err, req, o)
    ELSE
      LET h == Handle(layer, req, o.notes)
          ran == [o EXCEPT !.notes = h.notes,
                           !.nfRan = @ \/ layer = "notFound"] IN
      CASE h.act = "respond" -> [ran EXCEPT !.res = h.res, !.nres = @ + 1]
        [] h.act = "next" -> Dispatch(i + 1, NoErr, req, ran)
        [] h.act = "nextErr" -> Dispatch(i + 1, h.err, req, [ran EXCEPT !.err = h.err])
        [] h.act = "throw" ->
             Dispatch(i + 1, h.err, req, [ran EXCEPT !.err = h.err, !.fault = "sync"])
        [] h.act = "await" -> [ran EXCEPT !.wait = TRUE]

-----------------------------------------------------------------------------
(* The simulated database call *)

\* the array local to getNoteFromDB's timer callback
DbNotes ==
  << [id |-> "1", title |-> "Grocery", body |-> "Buy milk"],
     [id |-> "2", title |-> "Workout", body |-> "Leg day"] >>

\* how the promise of getNoteFromDB(id) settles when its timer fires
GetNoteFromDB(id) ==
  LET note == Find(DbNotes, id) IN
  IF note = NoNote
    THEN [ok |-> FALSE, note |-> NoNote, err |-> NewError("Note not found in database")]
    ELSE [ok |-> TRUE, note |-> note, err |-> NoErr]

\* the async handler with try/catch: catch (err) { err.status = 404; next(err) }
AfterAwaitCaught(req, o, settled) ==
  IF settled.ok
    THEN [o EXCEPT !.res = JsonNote(200, "route", settled.note), !.nres = @ + 1,
                   !.wait = FALSE]
    ELSE Dispatch(5, WithStatus(settled.err, 404), req,
                  [o EXCEPT !.err = WithStatus(settled.err, 404), !.wait = FALSE])

\* the rest of the async handler once the awaited promise has settled: the
\* handler has no try/catch, so a rejection leaves the handler's own promise
\* rejected with nobody to handle it
AfterAwait(req, o, settled) ==
  IF settled.ok
    THEN [o EXCEPT !.res = JsonNote(200, "route", settled.note), !.nres = @ + 1,
                   !.wait = FALSE]
    ELSE [o EXCEPT !.fault = "rejection", !.wait = FALSE]

\* what the runtime does with a promise rejection nobody handles: it ends the
\* process, or it only warns and the request is left without a response
UnhandledRejection == {"crashed", "hung"}

-----------------------------------------------------------------------------
(* Requests *)

Ids == {"1", "3", "01", "999"}

Get(path, query) ==
  [method |-> "GET", path |-> path, query |-> query, title |-> Undefined, body |-> Undefined]

Post(path, title, body) ==
  [method |-> "POST", path |-> path, query |-> "", title |-> title, body |-> body]

Requests ==
  {Get(<<"hello">>, ""), Get(<<"notes">>, ""), Get(<<"notes", "async-notes">>, ""),
   Get(<<"does-not-exist">>, ""), Get(<<"does-not-exist">>, "?x=1"),
   Get(<<"notes", "a", "b">>, ""), Get(<<"notes", "999">>, "?x=1")}
  \cup {Get(<<"notes", id>>, "") : id \in Ids}
  \cup {Get(<<"notes", "async-notes", id>>, "") : id \in Ids}
  \cup {Post(<<"notes">>, t, "B") : t \in {Undefined, "", "T", "U"}}
  \cup {Post(<<"notes">>, "T", b) : b \in {Undefined, ""}}
  \cup {Post(<<"notes">>, Undefined, Undefined), Post(<<"hello">>, "T", "B"),
        Post(<<"notes", "1">>, "T", "B")}

-----------------------------------------------------------------------------
(* The state machine *)

Init ==
  /\ notes = Seed
  /\ up = TRUE
  /\ reqs = <<>>

\* a request arrives and runs through the stack until it is answered or
\* suspends at the await
Request(req) ==
  /\ up
  /\ Len(reqs) < MaxReqs
  /\ LET o == Dispatch(1, NoErr, req, NoOutcome(notes)) IN
     /\ notes' = o.notes
     /\ reqs' = Append(reqs, [req |-> req, before |-> notes, o |-> o,
                              phase |-> IF o.wait THEN "waiting" ELSE "done"])
  /\ UNCHANGED up

\* the timer of a suspended lookup fires, the promise settles and the handler
\* resumes
Timeout(r) ==
  /\ up
  /\ r \in 1..Len(reqs)
  /\ reqs[r].phase = "waiting"
  /\ LET req == reqs[r].req
         o == AfterAwait(req, reqs[r].o, GetNoteFromDB(req.path[3])) IN
     IF o.fault = "rejection"
       THEN \E outcome \in UnhandledRejection :
              /\ reqs' = [reqs EXCEPT ![r].o = o, ![r].phase = outcome]
              /\ up' = (outcome # "crashed")
       ELSE /\ reqs' = [reqs EXCEPT ![r].o = o, ![r].phase = "done"]
            /\ up' = up
  /\ UNCHANGED notes

Next ==
  \/ \E req \in Requests : Request(req)
  \/ \E r \in 1..MaxReqs : Timeout(r)

Spec == Init /\ [][Next]_vars

-----------------------------------------------------------------------------
(* Vocabulary of the properties *)

Log == 1..Len(reqs)

IdsOf(store) == {store[k].id : k \in 1..Len(store)}

IsPrefix(a, b) == Len(a) <= Len(b) /\ SubSeq(b, 1, Len(a)) = a

IsHello(e) == e.req.method = "GET" /\ e.req.path = <<"hello">>

IsList(e) == e.req.method = "GET" /\ e.req.path = <<"notes">>

IsLookup(e) == e.req.method = "GET" /\ Len(e.req.path) = 2 /\ e.req.path[1] = "notes"

IsAsyncLookup(e) ==
  /\ e.req.method = "GET"
  /\ Len(e.req.path) = 3
  /\ e.req.path[1] = "notes"
  /\ e.req.path[2] = "async-notes"

IsCreate(e) == e.req.method = "POST" /\ e.req.path = <<"notes">>

Incomplete(e) == e.req.title \in {Undefined, ""} \/ e.req.body \in {Undefined, ""}

Unrouted(e) ==
  ~(IsHello(e) \/ IsList(e) \/ IsLookup(e) \/ IsAsyncLookup(e) \/ IsCreate(e))

\* the decimal numerals, written out
Decimal == <<"1", "2", "3", "4", "5", "6", "7", "8", "9", "10", "11", "12">>

\* the notes the complete create-note requests of a log ask for, in order
RECURSIVE CreatedBy(_)
CreatedBy(log) ==
  IF log = <<>> THEN <<>>
  ELSE LET e == log[Len(log)]
           earlier == CreatedBy(SubSeq(log, 1, Len(log) - 1)) IN
       IF IsCreate(e) /\ ~Incomplete(e)
         THEN Append(earlier, [id |-> Decimal[Len(Seed) + Len(earlier) + 1],
                                title |-> e.req.title, body |-> e.req.body])
         ELSE earlier

-----------------------------------------------------------------------------
(* C1: a GET /notes/j for an id j that no note in the store has ends with
   exactly one response, status 404 and body
   {error:{message:"Note not found", status:404}}, written by the centralized
   error middleware from the error the lookup handler delegated. *)
C1_MissingNoteIsShaped404 ==
  \A r \in Log :
    LET e == reqs[r] IN
    (IsLookup(e) /\ e.req.path[2] \notin IdsOf(e.before)) =>
      /\ e.phase = "done"
      /\ e.o.nres = 1
      /\ e.o.err = [message |-> "Note not found", hasStatus |-> TRUE, status |-> 404,
                    name |-> "Error"]
      /\ e.o.errCalls = 1
      /\ e.o.res = JsonError(404, "errorMiddleware", "Note not found", 404)

C1_Witness ==
  \E r \in Log :
    /\ IsLookup(reqs[r])
    /\ reqs[r].req.path[2] = "01"
    /\ Len(reqs[r].before) > Len(Seed)
    /\ reqs[r].o.res.status = 404

(* C2: a request that matches no route reaches the catch-all middleware,
   which only requests no route answered reach, and is answered once by the
   centralized error middleware with status 404 and body
   {error:{message:"Route not found: <METHOD> <url>", status:404}}. *)
C2_UnmatchedIsShaped404 ==
  /\ \A r \in Log :
       LET e == reqs[r] IN
       Unrouted(e) =>
         /\ e.o.nfRan
         /\ e.o.errCalls = 1
         /\ e.o.nres = 1
         /\ e.o.res = JsonError(404, "errorMiddleware",
                                "Route not found: " \o e.req.method \o " " \o Url(e.req), 404)
  /\ \A r \in Log : reqs[r].o.nfRan => Unrouted(reqs[r])
  /\ \A r \in Log :
       reqs[r].req = Get(<<"does-not-exist">>, "") =>
         reqs[r].o.res.message = "Route not found: GET /does-not-exist"
  /\ \A r \in Log :
       reqs[r].req = Get(<<"notes", "a", "b">>, "") =>
         reqs[r].o.res.message = "Route not found: GET /notes/a/b"

C2_Witness ==
  /\ \E r \in Log : reqs[r].req = Get(<<"does-not-exist">>, "") /\ reqs[r].o.res.status = 404
  /\ \E r \in Log : reqs[r].req = Get(<<"notes", "a", "b">>, "") /\ reqs[r].o.nfRan
  /\ \E r \in Log : reqs[r].req.method = "POST" /\ Unrouted(reqs[r]) /\ reqs[r].o.nfRan

(* C3: every error handed on by a handler or by the catch-all is consumed by
   the centralized error middleware exactly once, which writes the one
   response of the request: status err.status if set and 500 otherwise, body
   {error:{message: err.message, status: that status}}. *)
C3_DelegatedErrorAnsweredOnce ==
  \A r \in Log :
    LET e == reqs[r] IN
    e.o.err # NoErr =>
      /\ e.o.errCalls = 1
      /\ e.o.nres = 1
      /\ e.o.res.by = "errorMiddleware"
      /\ e.o.res.kind = "error"
      /\ e.o.res.status = (IF e.o.err.hasStatus THEN e.o.err.status ELSE 500)
      /\ e.o.res.message = e.o.err.message
      /\ e.o.res.errStatus = e.o.res.status

C3_Witness ==
  /\ \E r \in Log : reqs[r].o.err # NoErr /\ ~reqs[r].o.err.hasStatus /\ reqs[r].o.res.status = 500
  /\ \E r \in Log : reqs[r].o.err # NoErr /\ reqs[r].o.nfRan /\ reqs[r].o.res.status = 404
  /\ \E r \in Log : reqs[r].o.err # NoErr /\ IsLookup(reqs[r]) /\ reqs[r].o.res.status = 404

(* C4: a GET /notes/async-notes/<id> whose id the simulated database lookup
   does not find ends, once the timer has fired, in an unhandled rejection:
   no error is delegated, the centralized error middleware is not invoked and
   no response is written; a GET /notes/<id> for the same id that the store
   does not hold is answered with the shaped 404. *)
C4_AsyncMissIsUnhandled ==
  \A r \in Log :
    LET e == reqs[r] IN
    (IsAsyncLookup(e) /\ e.phase # "waiting" /\ e.req.path[3] \notin {"1", "2"}) =>
      /\ e.o.fault = "rejection"
      /\ e.phase \in {"crashed", "hung"}
      /\ e.o.err = NoErr
      /\ e.o.errCalls = 0
      /\ e.o.nres = 0
      /\ e.o.res = NoRes
      /\ \A s \in Log :
           (IsLookup(reqs[s]) /\ reqs[s].req.path[2] = e.req.path[3]
              /\ reqs[s].req.path[2] \notin IdsOf(reqs[s].before)) =>
             reqs[s].o.res = JsonError(404, "errorMiddleware", "Note not found", 404)

C4_Witness ==
  \E r, s \in Log :
    /\ IsAsyncLookup(reqs[r])
    /\ reqs[r].req.path[3] = "999"
    /\ reqs[r].phase \in {"crashed", "hung"}
    /\ IsLookup(reqs[s])
    /\ reqs[s].req.path[2] = "999"

(* C5: a POST /notes whose title or body is missing or empty is answered with
   status 400 and body {error:{message:"title and body required", status:400}}
   and leaves the store as it was. *)
C5_IncompleteCreateIs400 ==
  \A r \in Log :
    LET e == reqs[r] IN
    (IsCreate(e) /\ Incomplete(e)) =>
      /\ e.o.res = JsonError(400, "errorMiddleware", "title and body required", 400)
      /\ e.o.notes = e.before

(* C6: the store is the seeded notes followed by the notes of the complete
   POST /notes requests in the order they were made; each such POST answers
   201 with {id: the decimal numeral of the store's length before plus one,
   title, body} and leaves it the last note of the store; GET /notes answers
   200 with the store as it is then, the seeded notes alone before any
   append. *)
C6_ListIsSeedThenCreated ==
  /\ notes = Seed \o CreatedBy(reqs)
  /\ \A r \in Log :
       LET e == reqs[r]
           created == [id |-> Decimal[Len(e.before) + 1], title |-> e.req.title,
                       body |-> e.req.body] IN
       (IsCreate(e) /\ ~Incomplete(e)) =>
         /\ e.o.res = JsonNote(201, "route", created)
         /\ e.o.nres = 1
         /\ e.o.notes = Append(e.before, created)
  /\ \A r \in Log :
       LET e == reqs[r] IN
       IsList(e) =>
         /\ e.o.res = JsonList(200, "route", Seed \o CreatedBy(SubSeq(reqs, 1, r - 1)))
         /\ e.o.nres = 1
         /\ (CreatedBy(SubSeq(reqs, 1, r - 1)) = <<>> => e.o.res.list = Seed)

C6_Witness ==
  \E r \in Log :
    /\ IsList(reqs[r])
    /\ Len(reqs[r].o.res.list) = Len(Seed) + 2
    /\ reqs[r].o.res.list[3].title # reqs[r].o.res.list[4].title

(* C7: a GET /notes/i for the id i of a note in the store, seeded or
   appended, answers 200 with the note whose id is i, delegates no error and
   leaves the store as it was. *)
C7_ExistingNoteIs200 ==
  \A r \in Log :
    LET e == reqs[r] IN
    (IsLookup(e) /\ e.req.path[2] \in IdsOf(e.before)) =>
      /\ e.o.nres = 1
      /\ e.o.res.status = 200
      /\ e.o.res.by = "route"
      /\ e.o.res.kind = "note"
      /\ e.o.res.note.id = e.req.path[2]
      /\ \E k \in 1..Len(e.before) : e.before[k] = e.o.res.note
      /\ e.o.err = NoErr
      /\ e.o.errCalls = 0
      /\ e.o.notes = e.before

C7_Witness ==
  /\ \E r \in Log : IsLookup(reqs[r]) /\ reqs[r].req.path[2] = "3" /\ reqs[r].o.res.status = 200
  /\ \E r \in Log : IsLookup(reqs[r]) /\ reqs[r].req.path[2] = "1" /\ reqs[r].o.res.status = 200

(* C8: a GET /notes/async-notes/<id> for the id of a note the store held when
   the request was made, appended notes included, answers 200 with that note
   once its timer has fired, as GET /notes/<id> does. *)
C8_AsyncAgreesWithSync ==
  \A r \in Log :
    LET e == reqs[r] IN
    (IsAsyncLookup(e) /\ e.phase # "waiting" /\ e.req.path[3] \in IdsOf(e.before)) =>
      /\ e.o.res.status = 200
      /\ e.o.res.note = Find(e.before, e.req.path[3])

(* C9: in every state the note at position k of the store has the decimal
   numeral of k as its id, so the ids are pairwise distinct, and the store of
   every request so far is a prefix of the store now: nothing was removed or
   overwritten. *)
C9_IdsArePositions ==
  /\ \A k \in 1..Len(notes) : notes[k].id = Decimal[k]
  /\ \A j, k \in 1..Len(notes) : j # k => notes[j].id # notes[k].id
  /\ \A r \in Log : IsPrefix(reqs[r].before, reqs[r].o.notes) /\ IsPrefix(reqs[r].o.notes, notes)

C9_Witness ==
  /\ Len(notes) = Len(Seed) + 2
  /\ \E r \in Log : reqs[r].phase = "waiting" /\ Len(reqs[r].before) < Len(notes)

(* C10, as stated: a request whose handler raised a fault that was neither
   caught nor delegated is answered, without the shaped envelope when the
   fault is the rejected await, and the process keeps serving. *)
C10_FaultIsPerRequest ==
  \A r \in Log :
    LET e == reqs[r] IN
    /\ e.o.fault # "none" => (e.o.nres = 1 /\ up)
    /\ e.o.fault = "rejection" => e.o.res.kind = "html"

(* C10, amended: a fault thrown synchronously by a handler is caught by the
   framework and answered by the centralized error middleware, status 500
   when it carries none; the rejected await of the simulated-latency lookup is
   never answered by any stage and may end the process; the process ends in
   no other way, and once it has ended no request is answered or accepted. *)
C10_OnlySyncFaultIsIsolated ==
  /\ [](\A r \in Log :
          LET e == reqs[r] IN
          /\ e.o.fault = "sync" =>
               /\ e.phase = "done"
               /\ e.o.nres = 1
               /\ e.o.res.by = "errorMiddleware"
               /\ e.o.res.status = 500
          /\ e.o.fault = "rejection" =>
               /\ e.phase \in {"crashed", "hung"}
               /\ e.o.nres = 0
               /\ e.o.errCalls = 0
          /\ e.o.fault = "none" => e.phase \in {"waiting", "done"}
          /\ e.phase = "done" => e.o.nres = 1)
  /\ [](up <=> \A r \in Log : reqs[r].phase # "crashed")
  /\ [][~up => UNCHANGED reqs]_vars

C10_Witness ==
  /\ ~up
  /\ \E r \in Log : reqs[r].o.fault = "sync" /\ reqs[r].o.res.status = 500
  /\ \E r \in Log : reqs[r].phase = "waiting"

====
